---- MODULE Spec2Model ----
(***************************************************************************)
(* A model of signalfx/pyformance/registry.py: the dimensional             *)
(* MetricsRegistry, the RegexRegistry that derives metric names with a     *)
(* regular expression, the global accessors and the four call decorators.  *)
(*                                                                         *)
(* Python strings are sequences of one-character strings, so that          *)
(* formatting, joining and matching are computed and not assumed.          *)
(***************************************************************************)
EXTENDS Naturals, Sequences, FiniteSets, TLC

VARIABLES
    kpattern,   \* RegexRegistry(pattern=...): the constructor's argument
    kinput,     \* the raw name handed to _get_key
    kresult,    \* <<>> before the call, <<derived key>> after it
    reg,        \* the registry: metadata store, flat registry, the objects
    pattern,    \* self.pattern of a RegexRegistry
    ret,        \* what the last registry call gave its caller
    cleared,    \* the registry has been cleared (or, the global one, replaced)
    fresh,      \* a registry constructed at the last clear(), given the same calls since
    first,      \* (kind, name, dims) -> the instance its first registration returned
    again,      \* the last call registered a triple that was registered before
    thr,        \* per thread: the call in progress and its locals
    wpc,        \* the decorated call in progress: where the wrapper is
    wloc,       \* the wrapper's locals (dims, _histogram / _timer) and what it observed
    wout,       \* what the last wrapper call gave its caller
    fnout,      \* what the wrapped function did on that call
    stats       \* bookkeeping of the wrapper calls made so far

vars == <<kpattern, kinput, kresult, reg, pattern, ret, cleared, fresh, first,
          again, thr, wpc, wloc, wout, fnout, stats>>

-----------------------------------------------------------------------------
(* Bounds of the model.                                                    *)

MaxLen == 3
MaxObjs == 2
MaxRegexObjs == 1
MaxCalls == 4

-----------------------------------------------------------------------------
(* Strings.                                                                *)

RECURSIVE Flatten(_)
Flatten(ss) == IF ss = <<>> THEN <<>> ELSE Head(ss) \o Flatten(Tail(ss))

\* sep.join(parts)
RECURSIVE Join(_, _)
Join(sep, parts) ==
    IF parts = <<>> THEN <<>>
    ELSE IF Len(parts) = 1 THEN parts[1]
    ELSE parts[1] \o sep \o Join(sep, Tail(parts))

Slice(s, i, j) == SubSeq(s, i, j - 1)

WordChars == {"a", "b", "f", "o", "r", "n", "m", "t", "c", "h"}

-----------------------------------------------------------------------------
(* Compiled patterns (re.compile) and re's matching.  A pattern is a tree; *)
(* Match gives, in the order the backtracking matcher tries them, every    *)
(* way the tree matches s from position i: <<end, groups>>.  A group is    *)
(* <<>> (None: it did not participate) or <<text>>.                        *)

Lit(c) == [t |-> "lit", c |-> c]
W == [t |-> "w"]
Bol == [t |-> "bol"]
Eol == [t |-> "eol"]
Cat(rs) == [t |-> "seq", rs |-> rs]
Alt(a, b) == [t |-> "alt", a |-> a, b |-> b]
Star(r) == [t |-> "star", r |-> r]
Plus(r) == [t |-> "seq", rs |-> <<r, Star(r)>>]
Grp(i, r) == [t |-> "grp", i |-> i, r |-> r]

Compile(ngroups, re) == [groups |-> ngroups, re |-> re]

None == [t |-> "None"]

\* '^$'
PatEmpty == Compile(0, Cat(<<Bol, Eol>>))
\* '(\w+)\.(\w+)'
PatDotted == Compile(2, Cat(<<Grp(1, Plus(W)), Lit("."), Grp(2, Plus(W))>>))
\* '\w+'
PatNoGroup == Compile(0, Plus(W))
\* '(a)|(b)'
PatEither == Compile(2, Alt(Grp(1, Lit("a")), Grp(2, Lit("b"))))
\* '(a*)\.'
PatMaybe == Compile(1, Cat(<<Grp(1, Star(Lit("a"))), Lit(".")>>))
\* '(\w)'
PatEach == Compile(1, Grp(1, W))
\* '(a*)'
PatStar == Compile(1, Grp(1, Star(Lit("a"))))

Patterns == {PatEmpty, PatDotted, PatNoGroup, PatEither, PatMaybe, PatEach, PatStar}

\* F(x), with x evaluated once
With(x, F(_)) == CHOOSE r \in {F(v) : v \in {x}} : TRUE

RECURSIVE Match(_, _, _, _)
RECURSIVE MatchSeq(_, _, _, _)
RECURSIVE MatchStar(_, _, _, _)

Match(r, s, i, g) ==
    CASE r.t = "lit" -> IF i <= Len(s) /\ s[i] = r.c THEN << <<i + 1, g>> >> ELSE <<>>
      [] r.t = "w" -> IF i <= Len(s) /\ s[i] \in WordChars THEN << <<i + 1, g>> >> ELSE <<>>
      [] r.t = "bol" -> IF i = 1 THEN << <<i, g>> >> ELSE <<>>
      [] r.t = "eol" -> IF i = Len(s) + 1 THEN << <<i, g>> >> ELSE <<>>
      [] r.t = "seq" -> MatchSeq(r.rs, s, i, g)
      [] r.t = "alt" -> Match(r.a, s, i, g) \o Match(r.b, s, i, g)
      [] r.t = "star" -> MatchStar(r.r, s, i, g)
      [] r.t = "grp" ->
            With(Match(r.r, s, i, g), LAMBDA inner :
                [n \in 1..Len(inner) |->
                   <<inner[n][1],
                     [inner[n][2] EXCEPT ![r.i] = <<Slice(s, i, inner[n][1])>>]>>])

\* the items of rs one after the other: for each way the head matches, in order,
\* the ways the rest matches
MatchSeq(rs, s, i, g) ==
    IF rs = <<>> THEN << <<i, g>> >>
    ELSE With(Match(Head(rs), s, i, g), LAMBDA heads :
            Flatten([n \in 1..Len(heads) |->
                        MatchSeq(Tail(rs), s, heads[n][1], heads[n][2])]))

\* greedy r*: one more r (that consumed something) first, then stop here
MatchStar(r, s, i, g) ==
    With(SelectSeq(Match(r, s, i, g), LAMBDA m : m[1] > i), LAMBDA once :
        Flatten([n \in 1..Len(once) |-> MatchStar(r, s, once[n][1], once[n][2])])
          \o << <<i, g>> >>)

NoGroups(p) == [n \in 1..p.groups |-> <<>>]

\* the match the pattern finds at exactly position i, if any: <<>> or <<match>>.
\* nonempty: an empty match is not accepted (it would repeat the previous one).
MatchAt(p, s, i, nonempty) ==
    With(SelectSeq(Match(p.re, s, i, NoGroups(p)), LAMBDA m : ~nonempty \/ m[1] > i),
         LAMBDA ok :
            IF ok = <<>> THEN <<>>
            ELSE << [start |-> i, end |-> ok[1][1], groups |-> ok[1][2]] >>)

\* pattern.finditer(s): the non-overlapping matches, left to right
RECURSIVE FindIter(_, _, _, _)
FindIter(p, s, i, nonempty) ==
    IF i > Len(s) + 1 THEN <<>>
    ELSE With(MatchAt(p, s, i, nonempty), LAMBDA m :
            IF m = <<>> THEN FindIter(p, s, i + 1, FALSE)
            ELSE m \o FindIter(p, s, m[1].end, m[1].end = m[1].start))

Str_a_dot_b == <<"a", ".", "b">>
Str_a_slash_b == <<"a", "/", "b">>

\* the matches of the names the registries below are called with, computed once
\* rather than at every call
KnownMatches ==
    {<<p, s, FindIter(p, s, 1, FALSE)>> :
        p \in {PatEmpty, PatDotted, PatEach}, s \in {Str_a_dot_b, Str_a_slash_b}}

finditer(p, s) ==
    IF \E m \in KnownMatches : m[1] = p /\ m[2] = s
    THEN (CHOOSE m \in KnownMatches : m[1] = p /\ m[2] = s)[3]
    ELSE FindIter(p, s, 1, FALSE)

\* `if v`: None and '' are false
Truthy(v) == v # <<>> /\ v[1] # <<>>

-----------------------------------------------------------------------------
(* RegexRegistry.__init__ and RegexRegistry._get_key                        *)


RegexRegistry_init(pat) == IF pat # None THEN pat ELSE PatEmpty

\* (v for v in match.groups() if v), group by group
RECURSIVE GroupValues(_, _)
GroupValues(groups, n) ==
    IF n > Len(groups) THEN <<>>
    ELSE (IF Truthy(groups[n]) THEN <<groups[n][1]>> ELSE <<>>)
           \o GroupValues(groups, n + 1)

\* (v for match in matches for v in match.groups() if v), match by match
RECURSIVE KeyParts(_)
KeyParts(matches) ==
    IF matches = <<>> THEN <<>>
    ELSE GroupValues(Head(matches).groups, 1) \o KeyParts(Tail(matches))

\* every group that took part, empty or not
RECURSIVE AllGroupValues(_, _)
AllGroupValues(groups, n) ==
    IF n > Len(groups) THEN <<>>
    ELSE (IF groups[n] # <<>> THEN <<groups[n][1]>> ELSE <<>>)
           \o AllGroupValues(groups, n + 1)

get_key_keep_empty(p, key) ==
    With(finditer(p, key), LAMBDA matches :
        Join(<<"/">>, Flatten([m \in 1..Len(matches) |->
                                  AllGroupValues(matches[m].groups, 1)])))

get_key(p, key) == Join(<<"/">>, KeyParts(finditer(p, key)))

-----------------------------------------------------------------------------
(* Names, dimensions and metric objects.                                   *)

Str_a == <<"a">>

\* **dims: a set of <<name, value>> pairs; DimKeys lists the names in sorted order
DimKeys == <<"e", "r">>
NoDims == {}
DimP == {<<"e", "p">>}
DimSets == {NoDims, DimP}

\* the (name, dims) pairs the callers register
Registrations == {<<Str_a, NoDims>>, <<Str_a, DimP>>}

EmptyMap == <<>>
Put(map, k, v) == (k :> v) @@ map

Kinds == {"counter", "histogram", "gauge", "meter", "timer"}
Classes == {"Counter", "Histogram", "Gauge", "Meter", "Timer"}

\* the flat registry's dictionary for a kind / for a class of metric
FieldOf(kind) ==
    CASE kind = "counter" -> "counters"
      [] kind = "histogram" -> "histograms"
      [] kind = "gauge" -> "gauges"
      [] kind = "meter" -> "meters"
      [] kind = "timer" -> "timers"

FieldOfClass(cls) ==
    CASE cls = "Counter" -> "counters"
      [] cls = "Histogram" -> "histograms"
      [] cls = "Gauge" -> "gauges"
      [] cls = "Meter" -> "meters"
      [] cls = "Timer" -> "timers"

Fields == {"counters", "histograms", "gauges", "meters", "timers"}

\* a metric object: its class, what it was built from, how many observations it holds
NewObj(cls, arg) == [cls |-> cls, arg |-> arg, n |-> 0, last |-> None]

\* gauge(..., gauge=None, default=float("nan"))
NaN == [t |-> "nan"]
Zero == [t |-> "zero"]
Callback == [t |-> "callable"]
GaugeArgs == {[gauge |-> None, default |-> Zero], [gauge |-> Callback, default |-> NaN]}

\* objs maps the identity (the address, id()) of every live metric object to
\* its state; a new object gets the lowest address that is free
NewId(w) == CHOOSE i \in 1..(Cardinality(DOMAIN w.objs) + 1) :
               i \notin DOMAIN w.objs /\ \A j \in 1..(i - 1) : j \in DOMAIN w.objs

\* the objects the registry holds
Held(w) == UNION {{w[f][k] : k \in DOMAIN w[f]} : f \in Fields}

\* reference counting: only what the registry or the caller (roots) holds lives on
Collect(w, roots) ==
    [w EXCEPT !.objs = [i \in DOMAIN w.objs \cap (Held(w) \cup roots) |-> w.objs[i]]]

Live(w) == Cardinality(DOMAIN w.objs)

Ids(val) == {val[i] : i \in DOMAIN val}

\* what a call gives its caller: an exception ("" for none) and a value (<<>> for None)
Result(w, exc, val) == [w |-> w, exc |-> exc, val |-> val]

-----------------------------------------------------------------------------
(* The Metadata Store (signalfx.pyformance.metadata.MetricMetadata).       *)

\* 'k=v' for every dimension, in sorted order of the names
RECURSIVE DimParts(_, _)
DimParts(dims, n) ==
    IF n > Len(DimKeys) THEN <<>>
    ELSE LET here == {d \in dims : d[1] = DimKeys[n]}
         IN (IF here = {} THEN <<>>
             ELSE << <<DimKeys[n], "=", (CHOOSE d \in here : TRUE)[2]>> >>)
            \o DimParts(dims, n + 1)

\* the resolved key of (name, dims)
composite_name(name, dims) == Join(<<".">>, DimParts(dims, 1) \o <<name>>)

MetricMetadata_register(w, key, dims) ==
    LET ck == composite_name(key, dims)
    IN [w |-> [w EXCEPT !.metadata = Put(@, ck, [metric |-> key, dimensions |-> dims])],
        key |-> ck]

MetricMetadata_clear(w) == [w EXCEPT !.metadata = EmptyMap]

-----------------------------------------------------------------------------
(* The flat registry (pyformance.registry.MetricsRegistry).                *)

\* key in dict ? dict[key] : dict.setdefault(key, obj)
Flat_get(w, field, key, obj) ==
    IF key \in DOMAIN w[field] THEN Result(w, "", <<w[field][key]>>)
    ELSE LET id == NewId(w)
         IN Result([w EXCEPT ![field] = Put(@, key, id), !.objs = Put(@, id, obj)],
                   "", <<id>>)

Flat_counter(w, key) == Flat_get(w, "counters", key, NewObj("Counter", None))
Flat_histogram(w, key) == Flat_get(w, "histograms", key, NewObj("Histogram", None))
Flat_meter(w, key) == Flat_get(w, "meters", key, NewObj("Meter", None))
Flat_timer(w, key) == Flat_get(w, "timers", key, NewObj("Timer", None))

\* SimpleGauge(default) when no gauge is given, CallbackGauge(gauge) otherwise
Flat_gauge(w, key, gauge, default) ==
    Flat_get(w, "gauges", key,
             IF gauge = None THEN NewObj("Gauge", default) ELSE NewObj("Gauge", gauge))

\* metric: <<id>> of a metric object, or <<>> for an object that is no metric
Flat_add(w, key, metric) ==
    IF metric = <<>> THEN Result(w, "TypeError", <<>>)
    ELSE LET field == FieldOfClass(w.objs[metric[1]].cls)
         IN IF key \in DOMAIN w[field] THEN Result(w, "LookupError", <<>>)
            ELSE Result([w EXCEPT ![field] = Put(@, key, metric[1])], "", <<>>)

Flat_clear(w) ==
    [w EXCEPT !.counters = EmptyMap, !.histograms = EmptyMap, !.gauges = EmptyMap,
              !.meters = EmptyMap, !.timers = EmptyMap]

-----------------------------------------------------------------------------
(* class MetricsRegistry(pyformance.registry.MetricsRegistry)              *)

\* __init__: an empty metadata store and an empty flat registry; objs are the
\* metric objects alive in the process
MetricsRegistry_init(objs) ==
    [metadata |-> EmptyMap, counters |-> EmptyMap, histograms |-> EmptyMap,
     gauges |-> EmptyMap, meters |-> EmptyMap, timers |-> EmptyMap, objs |-> objs]

MetricsRegistry_add(w, key, metric, dims) ==
    LET m == MetricMetadata_register(w, key, dims)
    IN Flat_add(m.w, m.key, metric)

MetricsRegistry_counter(w, key, dims) ==
    LET m == MetricMetadata_register(w, key, dims)
    IN Flat_counter(m.w, m.key)

histogram_as_counter(w, key, dims) == MetricsRegistry_counter(w, key, dims)

MetricsRegistry_histogram(w, key, dims) ==
    LET m == MetricMetadata_register(w, key, dims)
    IN Flat_histogram(m.w, m.key)

MetricsRegistry_gauge(w, key, gauge, default, dims) ==
    LET m == MetricMetadata_register(w, key, dims)
    IN Flat_gauge(m.w, m.key, gauge, default)

MetricsRegistry_meter(w, key, dims) ==
    LET m == MetricMetadata_register(w, key, dims)
    IN Flat_meter(m.w, m.key)

MetricsRegistry_timer(w, key, dims) ==
    LET m == MetricMetadata_register(w, key, dims)
    IN Flat_timer(m.w, m.key)

clear_metadata_only(w) == MetricMetadata_clear(w)

clear_flat_only(w) == Flat_clear(w)

MetricsRegistry_clear(w) == Flat_clear(MetricMetadata_clear(w))

-----------------------------------------------------------------------------
(* Calls on a registry.  A call is [op, name, dims, arg]; arg is None, the  *)
(* gauge's (gauge, default), or for add the class of the metric the caller *)
(* constructed ("object": something that is no metric).                    *)

Call(op, name, dims, arg) == [op |-> op, name |-> name, dims |-> dims, arg |-> arg]

AddArgs == [cls : {"Histogram", "Counter", "object"}]

\* the caller's Counter(), Histogram(), ... handed to add
Construct(w, cls) == [w EXCEPT !.objs = Put(@, NewId(w), NewObj(cls, None))]

\* registry.<op>(name, arg, **dims) on a MetricsRegistry
Do(w, c) ==
    CASE c.op = "add" ->
           IF c.arg.cls = "object" THEN MetricsRegistry_add(w, c.name, <<>>, c.dims)
           ELSE MetricsRegistry_add(Construct(w, c.arg.cls), c.name,
                                    <<NewId(w)>>, c.dims)
      [] c.op = "counter" -> MetricsRegistry_counter(w, c.name, c.dims)
      [] c.op = "histogram" -> MetricsRegistry_histogram(w, c.name, c.dims)
      [] c.op = "gauge" ->
           MetricsRegistry_gauge(w, c.name, c.arg.gauge, c.arg.default, c.dims)
      [] c.op = "meter" -> MetricsRegistry_meter(w, c.name, c.dims)
      [] c.op = "timer" -> MetricsRegistry_timer(w, c.name, c.dims)
      [] c.op = "clear" -> Result(MetricsRegistry_clear(w), "", <<>>)

NoRet == [exc |-> "", val |-> <<>>]

\* first: what the first registration of (kind, name, dims) since the last clear()
\* returned
Remember(map, c, val) ==
    LET k == <<c.op, c.name, c.dims>>
    IN IF c.op = "clear" THEN EmptyMap
       ELSE IF c.op \notin Kinds \/ k \in DOMAIN map THEN map
       ELSE Put(map, k, val[1])

Repeats(map, c) == c.op \in Kinds /\ <<c.op, c.name, c.dims>> \in DOMAIN map

\* what every step of call c leaves behind: the registration is remembered and
\* an instance returned, or, for add, nothing is returned
Trace(c) ==
    IF c.op \in Kinds THEN <<c.op, c.name, c.dims>> \in DOMAIN first /\ ret.val # <<>>
    ELSE ret.val = <<>>

-----------------------------------------------------------------------------
(* Spec: one MetricsRegistry, called from one thread.                      *)

Init ==
    /\ reg = MetricsRegistry_init(<<>>)
    /\ fresh = Result(MetricsRegistry_init(<<>>), "", <<>>)
    /\ ret = NoRet
    /\ cleared = FALSE
    /\ first = EmptyMap /\ again = FALSE
    /\ pattern = None
    /\ kpattern = None /\ kinput = <<>> /\ kresult = <<>>
    /\ thr = [t \in {} |-> None]
    /\ wpc = "idle" /\ wloc = None /\ wout = None /\ fnout = None /\ stats = None

\* one call on the registry, and the same call on the registry constructed at
\* the last clear()
Step(c) ==
    LET r == Do(reg, c)
    IN /\ Live(r.w) <= MaxObjs
       /\ reg' = Collect(r.w, Ids(r.val))
       /\ ret' = [exc |-> r.exc, val |-> r.val]
       /\ fresh' = IF c.op = "clear" THEN Result(MetricsRegistry_init(<<>>), "", <<>>)
                   ELSE LET f == Do(fresh.w, c)
                        IN Result(Collect(f.w, Ids(f.val)), f.exc, f.val)
       /\ cleared' = (cleared \/ c.op = "clear")
       /\ first' = Remember(first, c, r.val)
       /\ again' = Repeats(first, c)
       /\ UNCHANGED <<pattern, kpattern, kinput, kresult, thr, wpc, wloc, wout,
                      fnout, stats>>

Add == \E nd \in Registrations, a \in AddArgs : Step(Call("add", nd[1], nd[2], a))

Counter == \E nd \in Registrations : Step(Call("counter", nd[1], nd[2], None))

Histogram == \E nd \in Registrations : Step(Call("histogram", nd[1], nd[2], None))

Gauge == \E nd \in Registrations, a \in GaugeArgs : Step(Call("gauge", nd[1], nd[2], a))

Meter == \E nd \in Registrations : Step(Call("meter", nd[1], nd[2], None))

Timer == \E nd \in Registrations : Step(Call("timer", nd[1], nd[2], None))

Clear == Step(Call("clear", <<>>, NoDims, None))

Next == Add \/ Counter \/ Histogram \/ Gauge \/ Meter \/ Timer \/ Clear

Spec == Init /\ [][Next]_vars

-----------------------------------------------------------------------------
(* What a caller can observe of a registry: the dimension associations and, *)
(* under each key of each kind, the state of the metric held there.        *)

Contents(w) ==
    [metadata |-> w.metadata,
     metrics |-> [f \in Fields |-> [k \in DOMAIN w[f] |-> w.objs[w[f][k]]]]]

Returned(w, exc, val) ==
    [exc |-> exc, val |-> IF val = <<>> THEN <<>> ELSE <<w.objs[val[1]]>>]


\* C1: after clear() both the Metadata Store and the flat registry are empty, and
\* whatever is registered afterwards gives the same keys, dimension associations,
\* metric state and results as the same calls on a newly constructed registry.
ClearActsAsFresh ==
    cleared =>
      /\ Contents(reg) = Contents(fresh.w)
      /\ Returned(reg, ret.exc, ret.val) = Returned(fresh.w, fresh.exc, fresh.val)

\* a registration made after a clear() that followed earlier registrations
ClearActsAsFreshWitness ==
    /\ cleared
    /\ reg.counters # EmptyMap /\ reg.gauges # EmptyMap
    /\ Cardinality(DOMAIN reg.metadata) = 2

\* the calls that register (name, dims) as a metric of the given kind
CallsOf(kind, nd) ==
    IF kind = "gauge" THEN {Call(kind, nd[1], nd[2], a) : a \in GaugeArgs}
    ELSE {Call(kind, nd[1], nd[2], None)}

\* C2: a (name, dims) pair registered again through the same kind returns the
\* instance its first registration returned, and that instance is the flat
\* registry's one entry of that kind under the resolved key.
SameInstance ==
    [][\A kind \in Kinds, nd \in Registrations :
         \A c \in CallsOf(kind, nd) :
            (<<kind, nd[1], nd[2]>> \in DOMAIN first /\ Trace(c)' /\ Step(c)) =>
               LET id == first[<<kind, nd[1], nd[2]>>]
                   key == composite_name(nd[1], nd[2])
               IN /\ ret'.exc = "" /\ ret'.val = <<id>>
                  /\ key \in DOMAIN reg'[FieldOf(kind)]
                  /\ reg'[FieldOf(kind)][key] = id
                  /\ reg'.objs = reg.objs]_vars

\* the second registration of a pair, with other registrations made in between
SameInstanceWitness ==
    /\ again /\ ret.val = <<1>> /\ Live(reg) >= 2
    /\ \E k \in DOMAIN first : k[1] = "gauge" /\ first[k] = 1

\* C10: every key under which the flat registry holds a metric has a dimension
\* association in the Metadata Store.
FlatKeysHaveMetadata == \A f \in Fields : DOMAIN reg[f] \subseteq DOMAIN reg.metadata

\* a metric is registered, and a failed add() has left an association with no metric
FlatKeysHaveMetadataWitness ==
    /\ ret.exc = "TypeError"
    /\ \E f \in Fields : reg[f] # EmptyMap
    /\ \E k \in DOMAIN reg.metadata : \A f \in Fields : k \notin DOMAIN reg[f]

-----------------------------------------------------------------------------
(* SpecKey: RegexRegistry(pattern)._get_key(raw_name), for every pattern of *)
(* Patterns (and for no pattern) and every raw name of RawInputs.           *)

Alphabet == {"a", "b", ".", "/"}

Str_foo_bar == <<"f", "o", "o", ".", "b", "a", "r">>
Str_nomatch == <<"n", "o", "m", "a", "t", "c", "h">>
Str_foo_slash_bar == <<"f", "o", "o", "/", "b", "a", "r">>

RawInputs ==
    UNION {[1..n -> Alphabet] : n \in 0..MaxLen} \cup {Str_foo_bar, Str_nomatch}

KeyInit ==
    /\ kpattern \in Patterns \cup {None}
    /\ kinput \in RawInputs
    /\ kresult = <<>>
    /\ reg = MetricsRegistry_init(<<>>)
    /\ fresh = Result(MetricsRegistry_init(<<>>), "", <<>>)
    /\ ret = NoRet
    /\ cleared = FALSE
    /\ first = EmptyMap /\ again = FALSE
    /\ pattern = RegexRegistry_init(kpattern)
    /\ thr = [t \in {} |-> None]
    /\ wpc = "idle" /\ wloc = None /\ wout = None /\ fnout = None /\ stats = None

GetKey ==
    /\ kresult = <<>>
    /\ kresult' = <<get_key(pattern, kinput)>>
    /\ UNCHANGED <<kpattern, kinput, reg, pattern, ret, cleared, fresh, first, again, thr,
                   wpc, wloc, wout, fnout, stats>>

KeyNext == GetKey

SpecKey == KeyInit /\ [][KeyNext]_vars

\* the n-th captured value of pattern.finditer(s), counting through each match's
\* groups from left to right and through the matches from left to right
NthGroup(p, matches, n) ==
    matches[((n - 1) \div p.groups) + 1].groups[((n - 1) % p.groups) + 1]

\* the values that are neither None nor empty, in that order
NonEmptyGroups(p, s) ==
    With(finditer(p, s), LAMBDA matches :
        With(SelectSeq([n \in 1..(Len(matches) * p.groups) |-> NthGroup(p, matches, n)],
                       LAMBDA v : v # <<>> /\ Len(v[1]) > 0),
             LAMBDA kept : [n \in 1..Len(kept) |-> kept[n][1]]))

\* parts[1] / parts[2] / ... / parts[n]
RECURSIVE Slashed(_, _)
Slashed(parts, n) ==
    IF n = 0 THEN <<>>
    ELSE IF n = 1 THEN parts[1]
    ELSE Slashed(parts, n - 1) \o <<"/">> \o parts[n]

\* C3: _get_key returns the '/'-joined non-empty captured group values of all
\* matches, in match order and group order; it is empty for an empty input, for a
\* pattern without groups, when nothing matches, and always when no pattern was
\* supplied; '(\w+)\.(\w+)' maps "foo.bar" to "foo/bar" and "nomatch" to "".
DerivedKeyIsJoinedGroups ==
    kresult # <<>> =>
      LET p == pattern
      IN /\ With(NonEmptyGroups(p, kinput), LAMBDA parts :
                 kresult[1] = Slashed(parts, Len(parts)))
         /\ kinput = <<>> => kresult[1] = <<>>
         /\ p.groups = 0 => kresult[1] = <<>>
         /\ finditer(p, kinput) = <<>> => kresult[1] = <<>>
         /\ kpattern = None => kresult[1] = <<>>
         /\ (kpattern = PatDotted /\ kinput = Str_foo_bar) => kresult[1] = Str_foo_slash_bar
         /\ (kpattern = PatDotted /\ kinput = Str_nomatch) => kresult[1] = <<>>

\* "foo.bar" has been derived to "foo/bar"
DerivedKeyWitness ==
    kpattern = PatDotted /\ kinput = Str_foo_bar /\ kresult = <<Str_foo_slash_bar>>

-----------------------------------------------------------------------------
(* class RegexRegistry(MetricsRegistry): self.pattern is p                 *)

timer_with_raw_key(w, p, key, dims) == MetricsRegistry_timer(w, key, dims)

RegexRegistry_timer(w, p, key, dims) == MetricsRegistry_timer(w, get_key(p, key), dims)

RegexRegistry_histogram(w, p, key, dims) ==
    MetricsRegistry_histogram(w, get_key(p, key), dims)

RegexRegistry_counter(w, p, key, dims) ==
    MetricsRegistry_counter(w, get_key(p, key), dims)

RegexRegistry_gauge(w, p, key, gauge, default, dims) ==
    MetricsRegistry_gauge(w, get_key(p, key), gauge, default, dims)

RegexRegistry_meter(w, p, key, dims) == MetricsRegistry_meter(w, get_key(p, key), dims)

\* registry.<op>(name, arg, **dims) on a RegexRegistry; add and clear are inherited
RegexDo(w, p, c) ==
    CASE c.op = "timer" -> RegexRegistry_timer(w, p, c.name, c.dims)
      [] c.op = "histogram" -> RegexRegistry_histogram(w, p, c.name, c.dims)
      [] c.op = "counter" -> RegexRegistry_counter(w, p, c.name, c.dims)
      [] c.op = "gauge" ->
           RegexRegistry_gauge(w, p, c.name, c.arg.gauge, c.arg.default, c.dims)
      [] c.op = "meter" -> RegexRegistry_meter(w, p, c.name, c.dims)
      [] OTHER -> Do(w, c)

-----------------------------------------------------------------------------
(* SpecRegex: one RegexRegistry, called from one thread.                   *)

RegistryPatterns == {None, PatDotted, PatEach}

\* the (raw name, dims) pairs the callers register
RawRegistrations ==
    {<<Str_a_dot_b, DimP>>, <<Str_a_slash_b, DimP>>}

RegexInit ==
    /\ kpattern \in RegistryPatterns
    /\ pattern = RegexRegistry_init(kpattern)
    /\ reg = MetricsRegistry_init(<<>>)
    /\ fresh = Result(MetricsRegistry_init(<<>>), "", <<>>)
    /\ ret = NoRet
    /\ cleared = FALSE
    /\ first = EmptyMap /\ again = FALSE
    /\ kinput = <<>> /\ kresult = <<>>
    /\ thr = [t \in {} |-> None]
    /\ wpc = "idle" /\ wloc = None /\ wout = None /\ fnout = None /\ stats = None

RegexStep(c) ==
    LET r == RegexDo(reg, pattern, c)
    IN /\ Live(r.w) <= MaxRegexObjs
       /\ reg' = Collect(r.w, Ids(r.val))
       /\ ret' = [exc |-> r.exc, val |-> r.val]
       /\ cleared' = (cleared \/ c.op = "clear")
       /\ first' = Remember(first, c, r.val)
       /\ again' = Repeats(first, c)
       /\ UNCHANGED <<fresh, pattern, kpattern, kinput, kresult, thr, wpc, wloc,
                      wout, fnout, stats>>

RegexTimer == \E nd \in RawRegistrations : RegexStep(Call("timer", nd[1], nd[2], None))

RegexHistogram ==
    \E nd \in RawRegistrations : RegexStep(Call("histogram", nd[1], nd[2], None))

RegexCounter == \E nd \in RawRegistrations : RegexStep(Call("counter", nd[1], nd[2], None))

RegexGauge ==
    \E nd \in RawRegistrations, a \in GaugeArgs : RegexStep(Call("gauge", nd[1], nd[2], a))

RegexMeter == \E nd \in RawRegistrations : RegexStep(Call("meter", nd[1], nd[2], None))

RegexAdd ==
    \E nd \in RawRegistrations, a \in AddArgs : RegexStep(Call("add", nd[1], nd[2], a))

RegexClear == RegexStep(Call("clear", <<>>, NoDims, None))

RegexNext ==
    \/ RegexTimer \/ RegexHistogram \/ RegexCounter \/ RegexGauge \/ RegexMeter
    \/ RegexAdd \/ RegexClear

SpecRegex == RegexInit /\ [][RegexNext]_vars

\* the call has, on the registry and for its caller, the effect of call d made on
\* a MetricsRegistry
ActsAs(c, d) ==
    (Trace(c)' /\ RegexStep(c)) =>
      LET r == Do(reg, d)
      IN reg' = Collect(r.w, Ids(r.val)) /\ ret' = [exc |-> r.exc, val |-> r.val]

\* raw names with one derived key and the same dimensions share one instance per kind
SharedByDerivedKey ==
    \A k1 \in DOMAIN first, k2 \in DOMAIN first :
       (k1[1] = k2[1] /\ k1[3] = k2[3] /\ first[k1] # first[k2])
       => (kpattern # None /\ get_key(pattern, k1[2]) # get_key(pattern, k2[2]))

\* C8: timer/histogram/counter/gauge/meter on a RegexRegistry act as the same call
\* of a MetricsRegistry on the derived key: raw names with the same derived key and
\* dimensions get the same instance (every raw name, when no pattern was given);
\* add() registers under the key resolved from the raw key.
RegexActsOnDerivedKey ==
    [][/\ \A kind \in Kinds, nd \in RawRegistrations :
            \A c \in CallsOf(kind, nd) :
               ActsAs(c, [c EXCEPT !.name = get_key(pattern, nd[1])])
       /\ \A nd \in RawRegistrations, a \in AddArgs :
            /\ ActsAs(Call("add", nd[1], nd[2], a), Call("add", nd[1], nd[2], a))
            /\ (Trace(Call("add", nd[1], nd[2], a))' /\ RegexStep(Call("add", nd[1], nd[2], a))) =>
                 composite_name(nd[1], nd[2]) \in DOMAIN reg'.metadata
       /\ SharedByDerivedKey']_vars

\* two raw names with different text, registered as timers, share one instance
RegexActsOnDerivedKeyWitness ==
    /\ kpattern = PatEach
    /\ <<"timer", Str_a_dot_b, DimP>> \in DOMAIN first
    /\ <<"timer", Str_a_slash_b, DimP>> \in DOMAIN first
    /\ DOMAIN reg.timers = {composite_name(Str_a_slash_b, DimP)}
    /\ again

-----------------------------------------------------------------------------
(* SpecThreads: several threads call one MetricsRegistry.  A registration   *)
(* is two calls, self.metadata.register(...) and then the flat registry's   *)
(* method with the key it returned; clear() is self.metadata.clear() and    *)
(* then the flat registry's clear().  Each of these calls is atomic here;   *)
(* the threads interleave between them.                                     *)

Threads == {1, 2}

Idle == [pc |-> "idle", call |-> None, key |-> <<>>, metric |-> <<>>]

idle(t) == thr[t].pc = "idle"

\* the metric objects the callers of add() hold while their call is in progress
HeldByThreads(th) == UNION {Ids(th[t].metric) : t \in Threads}

\* super().<op>(key, ...): the flat registry's method for the call
FlatCall(w, c, key, metric) ==
    CASE c.op = "add" -> Flat_add(w, key, metric)
      [] c.op = "counter" -> Flat_counter(w, key)
      [] c.op = "histogram" -> Flat_histogram(w, key)
      [] c.op = "gauge" -> Flat_gauge(w, key, c.arg.gauge, c.arg.default)
      [] c.op = "meter" -> Flat_meter(w, key)
      [] c.op = "timer" -> Flat_timer(w, key)

ThreadsInit ==
    /\ reg = MetricsRegistry_init(<<>>)
    /\ thr = [t \in Threads |-> Idle]
    /\ fresh = Result(MetricsRegistry_init(<<>>), "", <<>>)
    /\ ret = NoRet
    /\ cleared = FALSE
    /\ first = EmptyMap /\ again = FALSE
    /\ pattern = None
    /\ kpattern = None /\ kinput = <<>> /\ kresult = <<>>
    /\ wpc = "idle" /\ wloc = None /\ wout = None /\ fnout = None /\ stats = None

ThreadsUnchanged ==
    UNCHANGED <<fresh, cleared, first, again, pattern, kpattern, kinput, kresult,
                wpc, wloc, wout, fnout, stats>>

\* the argument of the call to super(): self.metadata.register(key, **dims)
RegisterMetadata(t, c) ==
    LET made == c.op = "add" /\ c.arg.cls # "object"
        w == IF made THEN Construct(reg, c.arg.cls) ELSE reg
        m == MetricMetadata_register(w, c.name, c.dims)
    IN /\ idle(t)
       /\ Live(w) <= MaxObjs
       /\ reg' = m.w
       /\ thr' = [thr EXCEPT ![t] = [pc |-> "registered", call |-> c, key |-> m.key,
                                     metric |-> IF made THEN <<NewId(reg)>> ELSE <<>>]]
       /\ UNCHANGED ret
       /\ ThreadsUnchanged

BeginAdd(t) ==
    \E nd \in Registrations, a \in AddArgs : RegisterMetadata(t, Call("add", nd[1], nd[2], a))

BeginGauge(t) ==
    \E nd \in Registrations, a \in GaugeArgs :
       RegisterMetadata(t, Call("gauge", nd[1], nd[2], a))

BeginMetric(t) ==
    \E nd \in Registrations, kind \in Kinds \ {"gauge"} :
       RegisterMetadata(t, Call(kind, nd[1], nd[2], None))

\* super().<op>(<the key>, ...), and the return to the caller
Delegate(t) ==
    /\ thr[t].pc = "registered"
    /\ LET r == FlatCall(reg, thr[t].call, thr[t].key, thr[t].metric)
           th == [thr EXCEPT ![t] = Idle]
       IN /\ Live(r.w) <= MaxObjs
          /\ reg' = Collect(r.w, HeldByThreads(th) \cup Ids(r.val))
          /\ ret' = [exc |-> r.exc, val |-> r.val]
          /\ thr' = th
    /\ ThreadsUnchanged

\* clear(): self.metadata.clear()
ClearMetadata(t) ==
    /\ idle(t)
    /\ reg' = MetricMetadata_clear(reg)
    /\ thr' = [thr EXCEPT ![t].pc = "clearing"]
    /\ UNCHANGED ret
    /\ ThreadsUnchanged

\* clear(): super().clear(), and the return to the caller
ClearFlat(t) ==
    /\ thr[t].pc = "clearing"
    /\ LET th == [thr EXCEPT ![t] = Idle]
       IN /\ reg' = Collect(Flat_clear(reg), HeldByThreads(th))
          /\ thr' = th
    /\ ret' = NoRet
    /\ ThreadsUnchanged

ThreadsNext ==
    \E t \in Threads :
       \/ BeginAdd(t) \/ BeginGauge(t) \/ BeginMetric(t) \/ Delegate(t)
       \/ ClearMetadata(t) \/ ClearFlat(t)

SpecThreads == ThreadsInit /\ [][ThreadsNext]_vars

\* C4: whatever the interleaving of registrations and clear() from several
\* threads, once no call is in progress every key that holds a metric in the flat
\* registry has its dimension association in the Metadata Store.
NoMetricWithoutDimensions ==
    (\A t \in Threads : idle(t)) =>
       \A f \in Fields : DOMAIN reg[f] \subseteq DOMAIN reg.metadata

-----------------------------------------------------------------------------
(* SpecCalls: one function f is wrapped by the four decorators and called   *)
(* through them, one call at a time, against the global registry.  A call   *)
(* is two steps: the wrapper up to its call of f, and f's outcome with the  *)
(* rest of the wrapper.  Between the two f's body runs; it, like any code   *)
(* between two calls, may clear or replace the global registry.             *)

\* "%s_calls" % pyformance.registry.get_qualname(fn), for the function f
CallsName == <<"f", "_", "c", "a", "l", "l", "s">>

\* what f returns: a value with its type(), or raises
Value(type, repr) == [type |-> type, repr |-> repr]
Values == {Value("int", "1"), Value("float", "2.5"), Value("str", "x"),
           Value("bool", "True")}
Exceptions == {"ValueError", "KeyError"}
Returns(v) == [exc |-> "", val |-> v]
Raises(e) == [exc |-> e, val |-> None]
Outcomes == {Returns(v) : v \in Values} \cup {Raises(e) : e \in Exceptions}

Decorators == {"count", "meter", "hist", "time"}

\* the global accessors: global_registry().<kind>(key, **dims)
counter(w, key, dims) == MetricsRegistry_counter(w, key, dims)
histogram(w, key, dims) == MetricsRegistry_histogram(w, key, dims)
meter(w, key, dims) == MetricsRegistry_meter(w, key, dims)
timer(w, key, dims) == MetricsRegistry_timer(w, key, dims)

\* Counter.inc(), Meter.mark(), the histogram's update(value), and the timer's
\* update when its context exits: one more observation on the object, v the
\* value observed
Observe(w, val, v) == [w EXCEPT !.objs[val[1]].n = @ + 1, !.objs[val[1]].last = v]

\* the observations on the object a reference denotes
Seen(w, val) == w.objs[val[1]].n

\* the observations of the metric a key holds in the registry, 0 when it holds none
Observed(w, field, dims) ==
    LET key == composite_name(CallsName, dims)
    IN IF key \in DOMAIN w[field] THEN w.objs[w[field][key]].n ELSE 0

\* type(rtn) in (int, float)
IsNumber(out) == out.exc = "" /\ out.val.type \in {"int", "float"}

\* what time.time() - start is, as far as the registry is concerned
Elapsed == Value("float", "elapsed")

\* Each wrapper up to its call of fn gives the registry and the metric object
\* it keeps in a local (val); each wrapper from fn's outcome on gives the
\* registry and the outcome of the wrapper itself.
Left(w, out) == [w |-> w, out |-> out]

count_calls_no_inc(w, dims) ==
    LET r == counter(w, CallsName, dims) IN Result(r.w, "", <<>>)

\* counter("%s_calls" % ..., **dims).inc()
count_calls_enter(w, dims) ==
    LET r == counter(w, CallsName, dims) IN Result(Observe(r.w, r.val, None), "", <<>>)

\* return fn(*args, **kwargs)
count_calls_leave(w, inst, out) == Left(w, out)

\* meter("%s_calls" % ..., **dims).mark()
meter_calls_enter(w, dims) ==
    LET r == meter(w, CallsName, dims) IN Result(Observe(r.w, r.val, None), "", <<>>)

meter_calls_swallow(w, inst, out) == Left(w, IF out.exc = "" THEN out ELSE Returns(None))

\* return fn(*args, **kwargs)
meter_calls_leave(w, inst, out) == Left(w, out)

\* _histogram = histogram("%s_calls" % ..., **dims)
hist_calls_enter(w, dims) == histogram(w, CallsName, dims)

hist_calls_update_any(w, inst, out) ==
    Left(IF out.exc = "" THEN Observe(w, inst, out.val) ELSE w, out)

\* rtn = fn(...); if type(rtn) in (int, float): _histogram.update(rtn); return rtn
hist_calls_leave(w, inst, out) ==
    Left(IF IsNumber(out) THEN Observe(w, inst, out.val) ELSE w, out)

\* _timer = timer("%s_calls" % ..., **dims); with _timer.time(fn=...):
time_calls_enter(w, dims) == timer(w, CallsName, dims)

time_calls_no_context(w, inst, out) ==
    Left(IF out.exc = "" THEN Observe(w, inst, Elapsed) ELSE w, out)

\* return fn(...) inside the with block: the context's exit records the
\* elapsed time and lets the outcome through
time_calls_leave(w, inst, out) == Left(Observe(w, inst, Elapsed), out)

NoCalls == [dims \in DimSets |-> 0]

NoLocals == [deco |-> "", dims |-> NoDims, inst |-> <<>>, pre |-> 0, post |-> 0,
             recorded |-> None]

CallsInit ==
    /\ reg = MetricsRegistry_init(<<>>)
    /\ wpc = "idle"
    /\ wloc = NoLocals
    /\ wout = None /\ fnout = None
    /\ stats = [total |-> 0, calls |-> NoCalls, numbers |-> NoCalls]
    /\ cleared = FALSE
    /\ fresh = Result(MetricsRegistry_init(<<>>), "", <<>>)
    /\ ret = NoRet
    /\ first = EmptyMap /\ again = FALSE
    /\ pattern = None
    /\ kpattern = None /\ kinput = <<>> /\ kresult = <<>>
    /\ thr = [t \in {} |-> None]

CallsUnchanged ==
    UNCHANGED <<fresh, ret, first, again, pattern, kpattern, kinput, kresult, thr>>

\* the wrapper is called and runs up to its call of fn; pre and post are the
\* observations on its metric before and after this step; total counts the
\* calls, and calls those of the counting wrapper for as long as the global
\* registry is the first one, never cleared
Enter(deco, dims, field, r) ==
    /\ wpc = "idle"
    /\ stats.total < MaxCalls
    /\ Live(r.w) <= MaxObjs
    /\ reg' = Collect(r.w, Ids(r.val))
    /\ wpc' = "fn"
    /\ wloc' = [deco |-> deco, dims |-> dims, inst |-> r.val,
                pre |-> Observed(reg, field, dims), post |-> Observed(r.w, field, dims),
                recorded |-> None]
    /\ stats' = [stats EXCEPT !.total = @ + 1,
                              !.calls[dims] =
                                  IF deco = "count" /\ ~cleared THEN @ + 1 ELSE @]
    /\ UNCHANGED <<wout, fnout, cleared>>
    /\ CallsUnchanged

\* fn returns or raises (out) and the wrapper runs to its end (l); post and
\* recorded are the observations on the wrapper's metric object, and the last
\* of them, as the wrapper leaves it; numbers counts, like calls, the
\* calls of the histogram wrapper in which fn returned an int or a float
Leave(deco, out, l) ==
    /\ wpc = "fn"
    /\ wloc.deco = deco
    /\ reg' = Collect(l.w, {})
    /\ wpc' = "idle"
    /\ fnout' = out
    /\ wout' = l.out
    /\ wloc' = [wloc EXCEPT !.inst = <<>>,
                            !.post = IF wloc.inst = <<>> THEN @ ELSE Seen(l.w, wloc.inst),
                            !.recorded = IF wloc.inst = <<>> THEN @
                                         ELSE l.w.objs[wloc.inst[1]].last]
    /\ stats' = [stats EXCEPT !.numbers[wloc.dims] =
                                  IF deco = "hist" /\ IsNumber(out) /\ ~cleared
                                  THEN @ + 1 ELSE @]
    /\ UNCHANGED cleared
    /\ CallsUnchanged

CountCallsEnter ==
    \E dims \in DimSets : Enter("count", dims, "counters", count_calls_enter(reg, dims))

CountCallsLeave ==
    \E out \in Outcomes : Leave("count", out, count_calls_leave(reg, wloc.inst, out))

MeterCallsEnter ==
    \E dims \in DimSets : Enter("meter", dims, "meters", meter_calls_enter(reg, dims))

MeterCallsLeave ==
    \E out \in Outcomes : Leave("meter", out, meter_calls_leave(reg, wloc.inst, out))

HistCallsEnter ==
    \E dims \in DimSets : Enter("hist", dims, "histograms", hist_calls_enter(reg, dims))

HistCallsLeave ==
    \E out \in Outcomes : Leave("hist", out, hist_calls_leave(reg, wloc.inst, out))

TimeCallsEnter ==
    \E dims \in DimSets : Enter("time", dims, "timers", time_calls_enter(reg, dims))

TimeCallsLeave ==
    \E out \in Outcomes : Leave("time", out, time_calls_leave(reg, wloc.inst, out))

\* global_registry().clear(), by fn's body or between two calls
GlobalClear ==
    /\ ~cleared
    /\ reg' = Collect(MetricsRegistry_clear(reg), Ids(wloc.inst))
    /\ cleared' = TRUE
    /\ UNCHANGED <<wpc, wloc, wout, fnout, stats>>
    /\ CallsUnchanged

\* set_global_registry(MetricsRegistry()), by fn's body or between two calls
SetGlobalRegistry ==
    /\ ~cleared
    /\ reg' = Collect(MetricsRegistry_init(reg.objs), Ids(wloc.inst))
    /\ cleared' = TRUE
    /\ UNCHANGED <<wpc, wloc, wout, fnout, stats>>
    /\ CallsUnchanged

CallsNext ==
    \/ CountCallsEnter \/ CountCallsLeave
    \/ MeterCallsEnter \/ MeterCallsLeave
    \/ HistCallsEnter \/ HistCallsLeave
    \/ TimeCallsEnter \/ TimeCallsLeave
    \/ GlobalClear \/ SetGlobalRegistry

SpecCalls == CallsInit /\ [][CallsNext]_vars

\* a step in which the wrapper of decorator deco is called and reaches fn
Entering(deco) == wpc = "idle" /\ wpc' = "fn" /\ wloc'.deco = deco

\* a step in which fn, called by the wrapper of decorator deco, returns or
\* raises and the wrapper returns or raises in turn
Leaving(deco) == wpc = "fn" /\ wpc' = "idle" /\ wloc.deco = deco

\* C5: as long as the global registry was neither cleared nor replaced, the
\* counter "f_calls" with dimensions dims holds exactly the number of calls of
\* the wrapper count_calls_with_dims(**dims) made; each call adds exactly one to
\* it before f is called, and the wrapper's outcome is f's outcome.
CountCallsCountsCalls ==
    /\ [](~cleared =>
            \A dims \in DimSets :
               Observed(reg, "counters", dims) = stats.calls[dims])
    /\ [][/\ Entering("count") =>
               Observed(reg', "counters", wloc'.dims)
                  = Observed(reg, "counters", wloc'.dims) + 1
          /\ Leaving("count") =>
               /\ wout' = fnout'
               /\ \A dims \in DimSets :
                     Observed(reg', "counters", dims) = Observed(reg, "counters", dims)]_vars

\* three calls have given exactly 3, and the last returned f's value
CountCallsWitness ==
    /\ ~cleared /\ wpc = "idle" /\ wloc.deco = "count"
    /\ stats.calls[DimP] = 3
    /\ Observed(reg, "counters", DimP) = 3
    /\ wout = Returns(Value("str", "x"))

\* C6: as long as the global registry was neither cleared nor replaced, the
\* histogram "f_calls" holds as many observations as there were completed calls
\* of the wrapper hist_calls_with_dims(**dims) in which f returned an int or a
\* float; nothing is recorded before f returns, an int or float is recorded
\* once f has returned it, anything else records nothing, and the wrapper
\* returns what f returned.
HistCallsRecordsNumbers ==
    /\ [](/\ ~cleared =>
               \A dims \in DimSets : Observed(reg, "histograms", dims) = stats.numbers[dims]
          /\ wpc = "fn" /\ wloc.deco = "hist" =>
               Seen(reg, wloc.inst) = wloc.pre /\ wloc.post = wloc.pre)
    /\ [][Leaving("hist") /\ fnout'.exc = "" =>
             /\ wout' = fnout'
             /\ IF fnout'.val.type \in {"int", "float"}
                THEN wloc'.post = wloc.pre + 1 /\ wloc'.recorded = fnout'.val
                ELSE wloc'.post = wloc.pre /\ wloc'.recorded = reg.objs[wloc.inst[1]].last]_vars

\* four calls, one of them returning no number, have recorded 3 observations,
\* the last return being the float 2.5
HistCallsWitness ==
    /\ ~cleared /\ wpc = "idle" /\ wloc.deco = "hist"
    /\ stats.total = 4
    /\ DOMAIN reg.histograms = {composite_name(CallsName, NoDims)}
    /\ Live(reg) = 1
    /\ stats.numbers[NoDims] = 3
    /\ Observed(reg, "histograms", NoDims) = 3
    /\ wout = Returns(Value("float", "2.5"))
    /\ wloc.recorded = Value("float", "2.5")

\* C7: every call of the wrapper time_calls_with_dims(**dims) adds exactly one
\* sample to the timer "f_calls", when f returns and when f raises, no sample
\* before f is over, and the wrapper's outcome is f's outcome: the value
\* returned, or the exception raised, which leaves the wrapper with the sample
\* recorded.
TimeCallsRecordsOneSample ==
    /\ [](wpc = "fn" /\ wloc.deco = "time" =>
             Seen(reg, wloc.inst) = wloc.pre /\ wloc.post = wloc.pre)
    /\ [][Leaving("time") =>
             /\ wout' = fnout'
             /\ wloc'.post = wloc.pre + 1
             /\ wloc'.recorded = Elapsed
             /\ LET key == composite_name(CallsName, wloc.dims)
                IN key \in DOMAIN reg.timers /\ wloc.inst = <<reg.timers[key]>> =>
                      Observed(reg', "timers", wloc.dims) = wloc.pre + 1]_vars

\* the second call has raised ValueError out of the wrapper, and the timer holds
\* two samples
TimeCallsWitness ==
    /\ wpc = "idle" /\ wloc.deco = "time"
    /\ wout = Raises("ValueError") /\ fnout = Raises("ValueError")
    /\ wloc.pre = 1 /\ wloc.post = 2
    /\ Observed(reg, "timers", wloc.dims) = 2

\* C9: when f raises, each of the four wrappers raises the same exception; the
\* counter and the meter got their observation of this call before f was
\* called, and the histogram gets none.
ExceptionsPropagate ==
    [][\A deco \in Decorators :
          Leaving(deco) /\ fnout'.exc # "" =>
             /\ wout' = fnout'
             /\ deco \in {"count", "meter"} =>
                   wloc.post = wloc.pre + 1 /\ wloc'.post = wloc.post
             /\ deco = "hist" =>
                   /\ wloc'.post = wloc.pre
                   /\ \A dims \in DimSets :
                         Observed(reg', "histograms", dims)
                            = Observed(reg, "histograms", dims)]_vars

\* f has raised KeyError through the meter wrapper, whose meter was marked,
\* after raising through the histogram wrapper, whose histogram is empty
ExceptionsPropagateWitness ==
    /\ ~cleared /\ wpc = "idle" /\ wloc.deco = "meter"
    /\ wout = Raises("KeyError") /\ fnout = Raises("KeyError")
    /\ Observed(reg, "meters", wloc.dims) = 1
    /\ composite_name(CallsName, NoDims) \in DOMAIN reg.histograms
    /\ Observed(reg, "histograms", NoDims) = 0
    /\ stats.total = 2

====
